---- MODULE Spec2Model ----
(***************************************************************************)
(* Model of server.js: the heuristic field-mapping and normalization       *)
(* pipeline of the construction inventory extractor and the               *)
(* /extract-inventory request handler that drives it.                      *)
(*                                                                         *)
(* Strings are sequences of characters (one-character strings), so that    *)
(* toLowerCase, the regular expressions, trim and includes are computed    *)
(* the way the source computes them.  The character "~" stands for the     *)
(* letter n-tilde of 'a~o' and 'se~al' in the source's pattern tables.     *)
(* Column and row indices are 0-based as in the source; the element of a   *)
(* JavaScript array a at index i is a[i + 1] here.                         *)
(***************************************************************************)
EXTENDS Integers, Sequences, FiniteSets, TLC

VARIABLES
  fn,        \* the function a pure-function specification applies ("" in Spec)
  args,      \* its arguments
  ret,       \* its return value, meaningful once returned
  returned,  \* whether the function has returned
  now,       \* new Date().getFullYear()
  req,       \* per request: position of the handler, upload, pending promise, response
  svcCalls   \* per request: the calls made on the document-analysis client, in order

vars == <<fn, args, ret, returned, now, req, svcCalls>>

----------------------------------------------------------------------------
(* Bounds of the model *)

\* columns of a header sequence given to the Field Mapper
MaxCols == 3

\* cells of a sparse table given to the Table Normalizer, and their largest indices
MaxCells == 2

MaxRowIndex == 2

MaxColIndex == 1

\* columns of a row given to the confidence scorer
ConfCols == 2

\* data rows of a document given to the orchestrator
MaxDataRows == 2

\* requests in flight at once
NumRequests == 2

\* columns of a table given to the description composer
DescCols == 2

----------------------------------------------------------------------------
(* JavaScript string primitives *)

UpperLetters ==
  <<"A","B","C","D","E","F","G","H","I","J","K","L","M",
    "N","O","P","Q","R","S","T","U","V","W","X","Y","Z">>

LowerLetters ==
  <<"a","b","c","d","e","f","g","h","i","j","k","l","m",
    "n","o","p","q","r","s","t","u","v","w","x","y","z">>

Digits == <<"0","1","2","3","4","5","6","7","8","9">>

Range(s) == {s[i] : i \in DOMAIN s}

IsDigit(c) == c \in Range(Digits)

WhiteSpace == {" ", "\t", "\n"}

\* String.prototype.toLowerCase, one character
lowerChar(c) ==
  IF c \in Range(UpperLetters)
    THEN LowerLetters[CHOOSE i \in DOMAIN UpperLetters : UpperLetters[i] = c]
    ELSE c

\* String.prototype.toUpperCase, one character
upperChar(c) ==
  IF c \in Range(LowerLetters)
    THEN UpperLetters[CHOOSE i \in DOMAIN LowerLetters : LowerLetters[i] = c]
    ELSE c

toLowerCase(s) == [i \in DOMAIN s |-> lowerChar(s[i])]

toUpperCase(s) == [i \in DOMAIN s |-> upperChar(s[i])]

\* String.prototype.includes: p occurs in s as a contiguous substring
includes(s, p) ==
  \E i \in 0..(Len(s) - Len(p)) : SubSeq(s, i + 1, i + Len(p)) = p

\* String.prototype.trim
RECURSIVE trimStart(_)
trimStart(s) ==
  IF s # <<>> /\ Head(s) \in WhiteSpace THEN trimStart(Tail(s)) ELSE s

RECURSIVE trimEnd(_)
trimEnd(s) ==
  IF s # <<>> /\ s[Len(s)] \in WhiteSpace
    THEN trimEnd(SubSeq(s, 1, Len(s) - 1))
    ELSE s

trim(s) == trimEnd(trimStart(s))

\* Array.prototype.join
RECURSIVE join(_, _)
join(parts, sep) ==
  IF parts = <<>> THEN <<>>
  ELSE IF Len(parts) = 1 THEN parts[1]
  ELSE parts[1] \o sep \o join(Tail(parts), sep)

\* the decimal text of a non-negative integer, as a template literal prints it
RECURSIVE numberToString(_)
numberToString(n) ==
  IF n < 10 THEN <<Digits[n + 1]>>
  ELSE numberToString(n \div 10) \o <<Digits[(n % 10) + 1]>>

digitValue(c) == (CHOOSE i \in DOMAIN Digits : Digits[i] = c) - 1

\* parseInt of a run of decimal digits
RECURSIVE parseInt(_)
parseInt(s) ==
  IF s = <<>> THEN 0
  ELSE parseInt(SubSeq(s, 1, Len(s) - 1)) * 10 + digitValue(s[Len(s)])

\* obj[key] = value on an object modelled as a function
Put(obj, key, value) ==
  [k \in DOMAIN obj \cup {key} |-> IF k = key THEN value ELSE obj[k]]

----------------------------------------------------------------------------
(* Field Mapper: detectFieldMappings *)

\* the keys of fieldPatterns in insertion order (Object.entries)
FieldOrder ==
  <<"itemName", "purchaseDate", "condition", "brand", "model",
    "serialNumber", "specifications", "supplier", "quantity">>

Fields == Range(FieldOrder)

fieldPatterns ==
  [ itemName |->
      << <<"n","o","m","b","r","e">>,
         <<"i","t","e","m">>,
         <<"d","e","s","c","r","i","p","c","i","o","n">>,
         <<"d","e","s","c","r","i","p","t","i","o","n">>,
         <<"h","e","r","r","a","m","i","e","n","t","a">>,
         <<"t","o","o","l">>,
         <<"e","q","u","i","p","m","e","n","t">>,
         <<"p","r","o","d","u","c","t","o">>,
         <<"p","r","o","d","u","c","t">>,
         <<"m","a","t","e","r","i","a","l">>,
         <<"a","r","t","i","c","u","l","o">>,
         <<"n","a","m","e">> >>,
    purchaseDate |->
      << <<"f","e","c","h","a">>,
         <<"d","a","t","e">>,
         <<"c","o","m","p","r","a">>,
         <<"p","u","r","c","h","a","s","e">>,
         <<"a","~","o">>,
         <<"y","e","a","r">>,
         <<"a","d","q","u","i","s","i","c","i","o","n">>,
         <<"f","e","c","h","a","c","o","m","p","r","a">>,
         <<"p","u","r","c","h","a","s","e","d","a","t","e">>,
         <<"b","o","u","g","h","t">>,
         <<"a","c","q","u","i","r","e","d">> >>,
    condition |->
      << <<"c","o","n","d","i","c","i","o","n">>,
         <<"c","o","n","d","i","t","i","o","n">>,
         <<"e","s","t","a","d","o">>,
         <<"s","t","a","t","e">>,
         <<"s","t","a","t","u","s">>,
         <<"s","i","t","u","a","c","i","o","n">> >>,
    brand |->
      << <<"m","a","r","c","a">>,
         <<"b","r","a","n","d">>,
         <<"f","a","b","r","i","c","a","n","t","e">>,
         <<"m","a","n","u","f","a","c","t","u","r","e","r">> >>,
    model |->
      << <<"m","o","d","e","l","o">>,
         <<"m","o","d","e","l">>,
         <<"t","i","p","o">>,
         <<"t","y","p","e">> >>,
    serialNumber |->
      << <<"s","e","r","i","e">>,
         <<"s","e","r","i","a","l">>,
         <<"n","u","m","e","r","o">>,
         <<"n","s","e","r","i","e">>,
         <<"s","e","r","i","a","l","n","u","m","b","e","r">> >>,
    specifications |->
      << <<"c","a","r","a","c","t","e","r","i","s","t","i","c","a","s">>,
         <<"s","p","e","c","s">>,
         <<"s","p","e","c","i","f","i","c","a","t","i","o","n","s">>,
         <<"f","e","a","t","u","r","e","s">>,
         <<"d","e","t","a","l","l","e","s">> >>,
    supplier |->
      << <<"p","r","o","v","e","e","d","o","r">>,
         <<"s","u","p","p","l","i","e","r">>,
         <<"v","e","n","d","o","r">> >>,
    quantity |->
      << <<"c","a","n","t">>,
         <<"c","a","n","t","i","d","a","d">>,
         <<"q","t","y">>,
         <<"q","u","a","n","t","i","t","y">>,
         <<"u","n","i","d","a","d","e","s">>,
         <<"u","n","i","t","s">> >> ]

\* h.toLowerCase().replace(/[^a-z0-9]/g, '').replace(/\s+/g, '')
normalizeHeader(h) ==
  SelectSeq(toLowerCase(h),
            LAMBDA c : c \in Range(LowerLetters) \/ IsDigit(c))

\* patterns.some(pattern => header.includes(pattern) || pattern.includes(header))
headerMatches(field, header) ==
  \E k \in DOMAIN fieldPatterns[field] :
    \/ includes(header, fieldPatterns[field][k])
    \/ includes(fieldPatterns[field][k], header)

\* if (!mappings[field]): true when the key is absent, and also when it holds 0
FieldUnset(mappings, field) ==
  field \notin DOMAIN mappings \/ mappings[field] = 0

\* a variant of assignColumn that records the column after the matching one
assignColumnOffByOne(mappings, field, index) == Put(mappings, field, index + 1)

\* mappings[field] = index
assignColumn(mappings, field, index) == Put(mappings, field, index)

\* normalizedHeaders.forEach((header, index) => ...) for one field, from index on
RECURSIVE scanHeaders(_, _, _, _)
scanHeaders(mappings, field, normalizedHeaders, index) ==
  IF index >= Len(normalizedHeaders) THEN mappings
  ELSE scanHeaders(
         IF /\ headerMatches(field, normalizedHeaders[index + 1])
            /\ FieldUnset(mappings, field)
           THEN assignColumn(mappings, field, index)
           ELSE mappings,
         field, normalizedHeaders, index + 1)

\* Object.entries(fieldPatterns).forEach(([field, patterns]) => ...), from field k on
RECURSIVE scanFields(_, _, _)
scanFields(mappings, normalizedHeaders, k) ==
  IF k > Len(FieldOrder) THEN mappings
  ELSE scanFields(scanHeaders(mappings, FieldOrder[k], normalizedHeaders, 0),
                  normalizedHeaders, k + 1)

detectFieldMappings(headers) ==
  scanFields(<<>>, [i \in DOMAIN headers |-> normalizeHeader(headers[i])], 1)

----------------------------------------------------------------------------
(* Value Extractors: categorizeItem, formatPurchaseDate, buildDescription *)

\* the JavaScript value null where a string is expected
null == <<"null">>

\* the JavaScript value undefined where a string is expected
undefined == <<"undefined">>

\* Object.entries(categories), in insertion order
categories ==
  << [category |-> <<"P","o","w","e","r"," ","T","o","o","l","s">>,
      keywords |->
        << <<"t","a","l","a","d","r","o">>,
           <<"m","a","r","t","i","l","l","o">>,
           <<"r","a","d","i","a","l">>,
           <<"a","m","o","l","a","d","o","r","a">>,
           <<"b","a","t","i","d","o","r","a">>,
           <<"s","i","e","r","r","a">>,
           <<"d","r","i","l","l">>,
           <<"h","a","m","m","e","r">>,
           <<"g","r","i","n","d","e","r">>,
           <<"m","i","x","e","r">>,
           <<"s","a","w">>,
           <<"c","u","t","t","e","r">> >>],
     [category |-> <<"S","a","f","e","t","y"," ","E","q","u","i","p","m","e","n","t">>,
      keywords |->
        << <<"a","r","n","e","s">>,
           <<"c","a","s","c","o">>,
           <<"s","a","f","e","t","y">>,
           <<"p","r","o","t","e","c","t","i","v","e">>,
           <<"p","r","o","t","e","c","c","i","o","n">>,
           <<"s","e","~","a","l">>,
           <<"h","e","l","m","e","t">>,
           <<"h","a","r","n","e","s","s">>,
           <<"s","i","g","n","a","l">>,
           <<"w","a","r","n","i","n","g">>,
           <<"g","u","a","r","d">> >>],
     [category |-> <<"H","a","n","d"," ","T","o","o","l","s">>,
      keywords |->
        << <<"l","l","a","v","e">>,
           <<"d","e","s","t","o","r","n","i","l","l","a","d","o","r">>,
           <<"p","a","l","a">>,
           <<"m","a","r","t","i","l","l","o">>,
           <<"c","i","n","c","e","l">>,
           <<"w","r","e","n","c","h">>,
           <<"s","c","r","e","w","d","r","i","v","e","r">>,
           <<"s","h","o","v","e","l">>,
           <<"c","h","i","s","e","l">>,
           <<"p","l","i","e","r","s">> >>],
     [category |-> <<"M","e","a","s","u","r","i","n","g"," ","T","o","o","l","s">>,
      keywords |->
        << <<"m","e","t","r","o">>,
           <<"n","i","v","e","l">>,
           <<"r","e","g","l","a">>,
           <<"m","e","d","i","d","o","r">>,
           <<"m","e","a","s","u","r","e">>,
           <<"l","e","v","e","l">>,
           <<"r","u","l","e","r">>,
           <<"g","a","u","g","e">> >>],
     [category |-> <<"P","o","w","e","r"," ","E","q","u","i","p","m","e","n","t">>,
      keywords |->
        << <<"g","r","u","p","o">>,
           <<"g","e","n","e","r","a","d","o","r">>,
           <<"c","o","m","p","r","e","s","o","r">>,
           <<"m","o","t","o","r">>,
           <<"g","e","n","e","r","a","t","o","r">>,
           <<"c","o","m","p","r","e","s","s","o","r">>,
           <<"e","n","g","i","n","e">>,
           <<"p","o","w","e","r">> >>],
     [category |-> <<"C","o","n","s","t","r","u","c","t","i","o","n"," ","M","a","t","e","r","i","a","l","s">>,
      keywords |->
        << <<"c","a","b","l","e">>,
           <<"t","u","b","o">>,
           <<"m","a","t","e","r","i","a","l">>,
           <<"a","l","a","m","b","r","e">>,
           <<"p","i","p","e">>,
           <<"w","i","r","e">>,
           <<"b","e","a","m">>,
           <<"r","o","d">> >>] >>

GeneralEquipment == <<"G","e","n","e","r","a","l"," ","E","q","u","i","p","m","e","n","t">>

\* for (const [category, keywords] of Object.entries(categories)), from entry k on
RECURSIVE firstCategory(_, _)
firstCategory(name, k) ==
  IF k > Len(categories) THEN GeneralEquipment
  ELSE IF \E j \in DOMAIN categories[k].keywords :
            includes(name, categories[k].keywords[j])
    THEN categories[k].category
    ELSE firstCategory(name, k + 1)

\* a variant of categorizeItem that does not lowercase the name
categorizeItemCaseSensitive(itemName) ==
  firstCategory(IF itemName \in {null, undefined} THEN <<>> ELSE itemName, 1)

categorizeItem(itemName) ==
  firstCategory(toLowerCase(IF itemName \in {null, undefined} THEN <<>> ELSE itemName), 1)

\* the five regular expressions of formatPurchaseDate: a digit run \d{min,max},
\* captured, or a literal character
D(min, max) == [kind |-> "digits", min |-> min, max |-> max]

L(c) == [kind |-> "literal", ch |-> c]

datePatterns ==
  << <<D(1, 2), L("/"), D(1, 2), L("/"), D(4, 4)>>,    \* MM/DD/YYYY
     <<D(1, 2), L("-"), D(1, 2), L("-"), D(4, 4)>>,    \* MM-DD-YYYY
     <<D(4, 4), L("-"), D(1, 2), L("-"), D(1, 2)>>,    \* YYYY-MM-DD
     <<D(4, 4), L("/"), D(1, 2), L("/"), D(1, 2)>>,    \* YYYY/MM/DD
     <<D(4, 4)>> >>                                    \* Just year

AllDigits(s, from, n) ==
  /\ from + n - 1 <= Len(s)
  /\ \A i \in from..(from + n - 1) : IsDigit(s[i])

\* The regular expression engine on one pattern, anchored at `from`: <<>> when the
\* pattern cannot match there, otherwise <<captures>>.  A digit run is greedy and
\* backtracks to shorter runs.
RECURSIVE matchAt(_, _, _, _)
RECURSIVE matchRun(_, _, _, _, _)
matchAt(s, from, pattern, k) ==
  IF k > Len(pattern) THEN << <<>> >>
  ELSE IF pattern[k].kind = "literal"
    THEN IF from <= Len(s) /\ s[from] = pattern[k].ch
           THEN matchAt(s, from + 1, pattern, k + 1)
           ELSE <<>>
    ELSE matchRun(s, from, pattern, k, pattern[k].max)

matchRun(s, from, pattern, k, n) ==
  IF n < pattern[k].min THEN <<>>
  ELSE LET rest == IF AllDigits(s, from, n)
                     THEN matchAt(s, from + n, pattern, k + 1)
                     ELSE <<>>
       IN IF rest # <<>>
            THEN << <<SubSeq(s, from, from + n - 1)>> \o rest[1] >>
            ELSE matchRun(s, from, pattern, k, n - 1)

\* dateStr.match(pattern) without the g flag: the leftmost match's captures
\* (match[1], match[2], ...), or <<>> for null
RECURSIVE matchFrom(_, _, _)
matchFrom(s, pattern, from) ==
  IF from > Len(s) + 1 THEN <<>>
  ELSE IF matchAt(s, from, pattern, 1) # <<>>
    THEN matchAt(s, from, pattern, 1)
    ELSE matchFrom(s, pattern, from + 1)

match(s, pattern) == matchFrom(s, pattern, 1)

\* String.prototype.padStart(2, '0')
padStart2(s) == IF Len(s) < 2 THEN <<"0">> \o s ELSE s

\* a variant of usDateToIso that takes the first capture for the day
usDateToIsoDayFirst(captures) ==
  captures[3] \o <<"-">> \o padStart2(captures[2]) \o <<"-">> \o padStart2(captures[1])

\* `${year}-${month}-${day}` from the captures month, day, year of a US-style date
usDateToIso(captures) ==
  captures[3] \o <<"-">> \o padStart2(captures[1]) \o <<"-">> \o padStart2(captures[2])

\* a variant of yearAccepted that takes the year 1900 too
yearAcceptedFrom1900(year) == year >= 1900 /\ year <= now + 5

\* year > 1900 && year <= new Date().getFullYear() + 5
yearAccepted(year) == year > 1900 /\ year <= now + 5

\* the body of for (const pattern of patterns), from pattern k on
RECURSIVE tryPatterns(_, _)
tryPatterns(dateStr, k) ==
  IF k > Len(datePatterns) THEN null
  ELSE LET m == match(dateStr, datePatterns[k])
       IN IF m = <<>> THEN tryPatterns(dateStr, k + 1)
          ELSE IF k = 5
            THEN LET year == parseInt(m[1][1])
                 IN IF yearAccepted(year)
                      THEN numberToString(year) \o <<"-","0","1","-","0","1">>
                      ELSE tryPatterns(dateStr, k + 1)
          ELSE IF k \in {3, 4} THEN dateStr
          ELSE usDateToIso(m[1])

formatPurchaseDate(dateValue) ==
  IF dateValue \in {null, undefined, <<>>} THEN null
  ELSE tryPatterns(trim(dateValue), 1)

\* a variant of getFieldValue that does not trim the cell
getFieldValueUntrimmed(row, mappings, field) ==
  IF field \in DOMAIN mappings
    THEN IF mappings[field] + 1 \in DOMAIN row
           THEN row[mappings[field] + 1]
           ELSE <<>>
    ELSE <<>>

\* getFieldValue(row, mappings[field]): index !== undefined ? (row[index] || '').toString().trim() : ''
getFieldValue(row, mappings, field) ==
  IF field \in DOMAIN mappings
    THEN IF mappings[field] + 1 \in DOMAIN row
           THEN trim(row[mappings[field] + 1])
           ELSE <<>>
    ELSE <<>>

\* a variant of descriptionFields that lists the model before the brand
descriptionFieldsModelFirst ==
  <<"model", "brand", "serialNumber", "specifications", "supplier", "quantity">>

descriptionFields ==
  <<"brand", "model", "serialNumber", "specifications", "supplier", "quantity">>

\* the field's own name as text, used when the header cell is empty
fieldText ==
  [ brand |-> <<"b","r","a","n","d">>,
    model |-> <<"m","o","d","e","l">>,
    serialNumber |-> <<"s","e","r","i","a","l","N","u","m","b","e","r">>,
    specifications |-> <<"s","p","e","c","i","f","i","c","a","t","i","o","n","s">>,
    supplier |-> <<"s","u","p","p","l","i","e","r">>,
    quantity |-> <<"q","u","a","n","t","i","t","y">> ]

NoAdditionalDetails == <<"N","o"," ","a","d","d","i","t","i","o","n","a","l"," ","d","e","t","a","i","l","s"," ","a","v","a","i","l","a","b","l","e">>

\* descriptionFields.forEach(field => ...), from field k on
RECURSIVE descriptionParts(_, _, _, _)
descriptionParts(row, mappings, headers, k) ==
  IF k > Len(descriptionFields) THEN <<>>
  ELSE LET field == descriptionFields[k]
           value == getFieldValue(row, mappings, field)
           header == IF mappings[field] + 1 \in DOMAIN headers
                       THEN headers[mappings[field] + 1]
                       ELSE <<>>
           fieldName == IF header # <<>> THEN header ELSE fieldText[field]
       IN (IF value # <<>> /\ trim(value) # <<>>
             THEN << fieldName \o <<":", " ">> \o value >>
             ELSE <<>>)
          \o descriptionParts(row, mappings, headers, k + 1)

buildDescription(row, mappings, headers) ==
  LET joined == join(descriptionParts(row, mappings, headers, 1), <<" ", "|", " ">>)
  IN IF joined # <<>> THEN joined ELSE NoAdditionalDetails

----------------------------------------------------------------------------
(* Table Normalizer: processAzureTable *)

\* the cellMap key `${cell.rowIndex}-${cell.columnIndex}`
cellKey(rowIndex, columnIndex) ==
  numberToString(rowIndex) \o <<"-">> \o numberToString(columnIndex)

\* value || '' on a string that may be undefined
orEmpty(value) == IF value = undefined THEN <<>> ELSE value

\* table.cells.forEach(cell => { cellMap[key] = cell.content || '' }), from cell k on
RECURSIVE fillCellMap(_, _, _)
fillCellMap(cellMap, cells, k) ==
  IF k > Len(cells) THEN cellMap
  ELSE fillCellMap(
         Put(cellMap, cellKey(cells[k].rowIndex, cells[k].columnIndex),
             orEmpty(cells[k].content)),
         cells, k + 1)

\* a variant of cellAt without the || '' default: a missing coordinate stays undefined
cellAtNoDefault(cellMap, rowIndex, columnIndex) ==
  IF cellKey(rowIndex, columnIndex) \in DOMAIN cellMap
    THEN cellMap[cellKey(rowIndex, columnIndex)]
    ELSE undefined

\* cellMap[key] || ''
cellAt(cellMap, rowIndex, columnIndex) ==
  IF cellKey(rowIndex, columnIndex) \in DOMAIN cellMap
    THEN cellMap[cellKey(rowIndex, columnIndex)]
    ELSE <<>>

MaxOf(S) == CHOOSE x \in S : \A y \in S : y <= x

\* a variant of processAzureTable whose maxRow and maxCol start from 0, as
\* Math.max(0, ...) would make them
processAzureTableMaxFromZero(table) ==
  LET cellMap == fillCellMap(<<>>, table.cells, 1)
      maxRow == MaxOf({0} \cup {table.cells[k].rowIndex : k \in DOMAIN table.cells})
      maxCol == MaxOf({0} \cup {table.cells[k].columnIndex : k \in DOMAIN table.cells})
  IN [headers |-> [col \in 1..(maxCol + 1) |-> cellAt(cellMap, 0, col - 1)],
      rows |-> [row \in 1..maxRow |->
                  [col \in 1..(maxCol + 1) |-> cellAt(cellMap, row, col - 1)]]]

\* Math.max() of no arguments is -Infinity, so for an empty cell collection neither
\* loop runs and { headers: [], rows: [] } is returned.
processAzureTable(table) ==
  IF table.cells = <<>> THEN [headers |-> <<>>, rows |-> <<>>]
  ELSE
    LET cellMap == fillCellMap(<<>>, table.cells, 1)
        maxRow == MaxOf({table.cells[k].rowIndex : k \in DOMAIN table.cells})
        maxCol == MaxOf({table.cells[k].columnIndex : k \in DOMAIN table.cells})
    IN [headers |-> [col \in 1..(maxCol + 1) |-> cellAt(cellMap, 0, col - 1)],
        rows |-> [row \in 1..maxRow |->
                    [col \in 1..(maxCol + 1) |-> cellAt(cellMap, row, col - 1)]]]

----------------------------------------------------------------------------
(* Confidence & Validation Scorer *)

\* the weight calculateItemConfidence adds for a field that has a value
confidenceWeights ==
  [itemName |-> 50, brand |-> 15, model |-> 15, purchaseDate |-> 10,
   specifications |-> 10]

confidenceFields ==
  <<"itemName", "brand", "model", "purchaseDate", "specifications">>

Min(a, b) == IF a <= b THEN a ELSE b

\* the five if statements of calculateItemConfidence, from statement k on
RECURSIVE addWeights(_, _, _, _)
addWeights(score, row, mappings, k) ==
  IF k > Len(confidenceFields) THEN score
  ELSE addWeights(
         IF getFieldValue(row, mappings, confidenceFields[k]) # <<>>
           THEN score + confidenceWeights[confidenceFields[k]]
           ELSE score,
         row, mappings, k + 1)

calculateItemConfidence(row, mappings) ==
  Min(addWeights(0, row, mappings, 1), 100)

\* a variant of validateItem that reports only an unmapped item-name field
validateItemMappedOnly(row, mappings) ==
  IF "itemName" \notin DOMAIN mappings
    THEN << [field |-> "itemName", message |-> "Item name is required",
             severity |-> "error"] >>
    ELSE <<>>

validateItem(row, mappings) ==
  IF getFieldValue(row, mappings, "itemName") = <<>>
    THEN << [field |-> "itemName", message |-> "Item name is required",
             severity |-> "error"] >>
    ELSE <<>>

----------------------------------------------------------------------------
(* Orchestrator: the body of app.post('/extract-inventory') after the analysis *)

\* /\.(xlsx|xls)$/i and /\.(pdf|csv|png|jpg|jpeg)$/i: the name ends with the
\* extension, letter case ignored
endsWithIgnoreCase(s, suffix) ==
  /\ Len(s) >= Len(suffix)
  /\ SubSeq(toLowerCase(s), Len(s) - Len(suffix) + 1, Len(s)) = suffix

ExcelExtensions == { <<".","x","l","s","x">>, <<".","x","l","s">> }

\* a variant of isExcelName without the i flag
isExcelNameCaseSensitive(originalname) ==
  \E e \in ExcelExtensions :
    /\ Len(originalname) >= Len(e)
    /\ SubSeq(originalname, Len(originalname) - Len(e) + 1, Len(originalname)) = e

isExcelName(originalname) ==
  \E e \in ExcelExtensions : endsWithIgnoreCase(originalname, e)

KnownExtensions == { <<".","p","d","f">>, <<".","c","s","v">>, <<".","p","n","g">>, <<".","j","p","g">>, <<".","j","p","e","g">> }

\* .replace(/\.(pdf|csv|png|jpg|jpeg)$/i, '')
stripKnownExtension(originalname) ==
  IF \E e \in KnownExtensions : endsWithIgnoreCase(originalname, e)
    THEN LET e == CHOOSE x \in KnownExtensions : endsWithIgnoreCase(originalname, x)
         IN SubSeq(originalname, 1, Len(originalname) - Len(e))
    ELSE originalname

\* .replace(/[-_]/g, ' ')
dashesToSpaces(s) == [i \in DOMAIN s |-> IF s[i] \in {"-", "_"} THEN " " ELSE s[i]]

projectNameOf(originalname) ==
  toUpperCase(dashesToSpaces(stripKnownExtension(originalname)))

\* row.some(cell => cell.trim())
rowHasContent(row) == \E c \in DOMAIN row : trim(row[c]) # <<>>

ItemPrefix == <<"I","t","e","m"," ">>

AzurePrefix == <<"a","z","u","r","e","_">>

Good == <<"G","o","o","d">>

\* the object literal built for one non-blank row; index is the 0-based row index
buildItem(row, index, fieldMappings, headers, projectName) ==
  LET mapped == getFieldValue(row, fieldMappings, "itemName")
      itemName == IF mapped # <<>> THEN mapped
                  ELSE ItemPrefix \o numberToString(index + 1)
      condition == getFieldValue(row, fieldMappings, "condition")
  IN [id |-> AzurePrefix \o numberToString(index),
      project |-> projectName,
      itemName |-> trim(itemName),
      category |-> categorizeItem(itemName),
      condition |-> IF condition # <<>> THEN condition ELSE Good,
      purchaseDate |-> formatPurchaseDate(getFieldValue(row, fieldMappings, "purchaseDate")),
      description |-> buildDescription(row, fieldMappings, headers),
      confidence |-> calculateItemConfidence(row, fieldMappings),
      validationIssues |-> validateItem(row, fieldMappings),
      source |-> "azure_ai"]

\* a variant of rowStep without the row.some(cell => cell.trim()) test
rowStepNoSkip(acc, row, index, fieldMappings, headers, projectName) ==
  [extractedItems |->
     Append(acc.extractedItems,
            buildItem(row, index, fieldMappings, headers, projectName)),
   totalConfidence |->
     acc.totalConfidence + calculateItemConfidence(row, fieldMappings)]

\* a variant of rowStep that numbers an item by the items produced before it
rowStepItemIndex(acc, row, index, fieldMappings, headers, projectName) ==
  IF rowHasContent(row)
    THEN [extractedItems |->
            Append(acc.extractedItems,
                   buildItem(row, Len(acc.extractedItems), fieldMappings, headers,
                             projectName)),
          totalConfidence |->
            acc.totalConfidence + calculateItemConfidence(row, fieldMappings)]
    ELSE acc

\* one call of the tableData.rows.forEach callback on the accumulated
\* extractedItems and totalConfidence
rowStep(acc, row, index, fieldMappings, headers, projectName) ==
  IF rowHasContent(row)
    THEN [extractedItems |->
            Append(acc.extractedItems,
                   buildItem(row, index, fieldMappings, headers, projectName)),
          totalConfidence |->
            acc.totalConfidence + calculateItemConfidence(row, fieldMappings)]
    ELSE acc

\* tableData.rows.forEach((row, index) => ...), from index on
RECURSIVE rowLoop(_, _, _, _, _)
rowLoop(acc, tableData, index, fieldMappings, projectName) ==
  IF index >= Len(tableData.rows) THEN acc
  ELSE rowLoop(rowStep(acc, tableData.rows[index + 1], index, fieldMappings,
                       tableData.headers, projectName),
               tableData, index + 1, fieldMappings, projectName)

\* Math.round(a / b) for a >= 0 and b > 0: halves round up
mathRoundDiv(a, b) == (2 * a + b) \div (2 * b)

\* Object.keys(TARGET_FIELDS)
targetFields ==
  <<"project", "itemName", "category", "condition", "purchaseDate", "description">>

\* a variant of successResponse that reports the mapping a success once a table exists
successResponseMappedIfTable(extractedItems, totalConfidence, projectName, tables) ==
  [status |-> 200,
   body |-> [success |-> TRUE,
             extractedItems |-> extractedItems,
             totalItems |-> Len(extractedItems),
             projectName |-> projectName,
             processingInfo |->
               [service |-> "Azure Document Intelligence",
                tablesDetected |-> Len(tables),
                confidenceScore |->
                  IF Len(extractedItems) > 0
                    THEN mathRoundDiv(totalConfidence, Len(extractedItems))
                    ELSE 0,
                targetFields |-> targetFields,
                fieldMappingSuccess |-> Len(tables) > 0]]]

\* the object given to res.json after the row loop, with avgConfidence
successResponse(extractedItems, totalConfidence, projectName, tables) ==
  [status |-> 200,
   body |-> [success |-> TRUE,
             extractedItems |-> extractedItems,
             totalItems |-> Len(extractedItems),
             projectName |-> projectName,
             processingInfo |->
               [service |-> "Azure Document Intelligence",
                tablesDetected |-> Len(tables),
                confidenceScore |->
                  IF Len(extractedItems) > 0
                    THEN mathRoundDiv(totalConfidence, Len(extractedItems))
                    ELSE 0,
                targetFields |-> targetFields,
                fieldMappingSuccess |-> Len(extractedItems) > 0]]]

\* everything from the project name to res.json, for an analysis that succeeded
extractInventory(originalname, result) ==
  LET projectName == projectNameOf(originalname)
      tables == IF "tables" \in DOMAIN result THEN result.tables ELSE <<>>
      empty == [extractedItems |-> <<>>, totalConfidence |-> 0]
      tableData == processAzureTable(tables[1])
      acc == IF Len(tables) > 0
               THEN IF Len(tableData.headers) > 0 /\ Len(tableData.rows) > 0
                      THEN rowLoop(empty, tableData, 0,
                                   detectFieldMappings(tableData.headers), projectName)
                      ELSE empty
               ELSE empty
  IN successResponse(acc.extractedItems, acc.totalConfidence, projectName, tables)

\* the responses of the handler that end a request without a result
noFileResponse == [status |-> 400, body |-> [error |-> "No file uploaded"]]

\* (the arrows of the solution text are written -> here)
excelResponse ==
  [status |-> 400,
   body |-> [error |-> "Excel format requires conversion",
             details |-> "Please convert Excel to PDF for best results",
             solution |-> "Open Excel -> File -> Save As -> PDF"]]

\* a variant of failureResponse that does not pass error.message on
failureResponseGeneric(message) ==
  [status |-> 500,
   body |-> [error |-> "Processing failed",
             details |-> "Processing failed",
             solution |-> "Try converting to PDF or check file format"]]

\* the catch block's response; message is error.message
failureResponse(message) ==
  [status |-> 500,
   body |-> [error |-> "Processing failed",
             details |-> message,
             solution |-> "Try converting to PDF or check file format"]]

----------------------------------------------------------------------------
(* Inputs *)

\* header cells an analysed document may carry
HeaderTexts ==
  { <<"N","o","m","b","r","e">>, <<"M","a","r","c","a">>, <<"F","e","c","h","a"," ","C","o","m","p","r","a">>, <<"I","t","e","m">>, <<"M","o","d","e","l","o">>,
    <<"T","i","p","o"," ","d","e"," ","H","e","r","r","a","m","i","e","n","t","a">>, <<"R","e","f">>, <<"A","~","o">>, <<>> }

\* every header sequence of at most n columns
HeaderSeqs(n) == UNION {[1..k -> HeaderTexts] : k \in 0..n}

\* the years new Date().getFullYear() returns while the service runs
CurrentYears == {2025, 2026}

ThisYear == MaxOf(CurrentYears)

\* a dense table as the sparse collection of its non-empty cells
gridCells(grid) ==
  LET coords == {rc \in UNION {{<<r, c>> : c \in DOMAIN grid[r]} : r \in DOMAIN grid} :
                   grid[rc[1]][rc[2]] # <<>>}
      RECURSIVE list(_)
      list(S) == IF S = {} THEN <<>>
                 ELSE LET rc == CHOOSE x \in S : \A y \in S :
                                  x[1] < y[1] \/ (x[1] = y[1] /\ x[2] <= y[2])
                      IN <<[rowIndex |-> rc[1] - 1, columnIndex |-> rc[2] - 1,
                            content |-> grid[rc[1]][rc[2]]]>> \o list(S \ {rc})
  IN list(coords)


\* the content of a cell of the analysis result; undefined when the service omits it
CellContents == { undefined, <<>>, <<"B","o","s","c","h">>, <<"T","a","l","a","d","r","o">> }

SparseCells ==
  [rowIndex : 0..MaxRowIndex, columnIndex : 0..MaxColIndex, content : CellContents]

\* every cell collection of at most MaxCells cells, duplicated coordinates included
CellSeqs == UNION {[1..k -> SparseCells] : k \in 0..MaxCells}

\* cells of a data row given to the confidence scorer
ConfCells == { <<>>, <<" ">>, <<" ","G","X","-","2","0"," ">> }

UnscoredFields == {"condition", "serialNumber", "supplier", "quantity"}

\* every partial function from a set of fields to the columns 0..n-1
PartialMappings(fields, n) ==
  UNION {[d -> 0..(n - 1)] : d \in SUBSET fields}

\* the mappings given to the confidence scorer: any assignment of the scored fields,
\* with the unscored fields unmapped, all on the first or all on the last column
ConfMappings ==
  {[f \in DOMAIN m \cup DOMAIN u |-> IF f \in DOMAIN m THEN m[f] ELSE u[f]] :
     m \in PartialMappings(Range(confidenceFields), ConfCols),
     u \in {<<>>} \cup {[f \in UnscoredFields |-> c] : c \in {0, ConfCols - 1}}}

\* the documents given to the orchestrator: a header row and data rows
ExtractHeaderRows ==
  { << <<"N","o","m","b","r","e">>, <<"M","a","r","c","a">>, <<"F","e","c","h","a"," ","C","o","m","p","r","a">> >>,
    << <<"I","t","e","m">>, <<"N","o","m","b","r","e">>, <<"F","e","c","h","a">> >>,
    << <<"R","e","f">>, <<"M","a","r","c","a">>, <<>> >> }

ExtractDataRows ==
  { <<a, b, c>> : a \in { <<>>, <<" ">>, <<"T","a","l","a","d","r","o"," ","B","o","s","c","h">> },
                  b \in { <<>>, <<"B","o","s","c","h">> },
                  c \in { <<>>, <<"0","5","/","1","4","/","2","0","2","3">>, <<"2","0","2","3","/","0","5","/","1","4">>, <<"2","0","2","3">> } }

ExtractGrids ==
  { <<h>> \o rows : h \in ExtractHeaderRows,
                    rows \in UNION {[1..k -> ExtractDataRows] : k \in 0..MaxDataRows} }

\* req.file of an upload: undefined when the form carries no file, else its name
Uploads ==
  { undefined, <<"o","b","r","a","_","n","o","r","t","e","-","2",".","p","d","f">>, <<"B","o","d","e","g","a"," ","3",".","J","P","E","G">>, <<"l","i","s","t","a",".","x","l","s","x">>,
    <<"I","N","V","E","N","T","A","R","I","O",".","X","L","S">> }

\* error.message of a failed call of the document-analysis service
ServiceMessages == {"Invalid request", "Out of call volume quota"}

\* what poller.pollUntilDone() may resolve to
AnalysisResults ==
  << [pages |-> <<>>],
     [tables |-> <<>>],
     [tables |-> <<[cells |-> <<>>]>>],
     [tables |-> <<[cells |-> gridCells(<< << <<"N","o","m","b","r","e">>, <<"M","a","r","c","a">> >> >>)]>>],
     [tables |-> <<[cells |-> gridCells(<< << <<"N","o","m","b","r","e">>, <<"M","a","r","c","a">> >>,
                                           << <<" ">>, <<>> >> >>)]>>],
     [tables |-> <<[cells |-> gridCells(<< << <<"N","o","m","b","r","e">>, <<"M","a","r","c","a">>, <<"F","e","c","h","a"," ","C","o","m","p","r","a">> >>,
                                           << <<"T","a","l","a","d","r","o"," ","B","o","s","c","h">>, <<"B","o","s","c","h">>, <<"0","5","/","1","4","/","2","0","2","3">> >> >>)]>>],
     [tables |-> <<[cells |-> gridCells(<< << <<"I","t","e","m">>, <<"M","o","d","e","l","o">> >>,
                                           << <<>>, <<>> >>,
                                           << <<"C","a","s","c","o">>, <<>> >>,
                                           << <<>>, <<"G","X","-","2","0">> >> >>)],
                   [cells |-> gridCells(<< << <<"N","o","m","b","r","e">> >>, << <<"P","a","l","a">> >> >>)]>>] >>

\* the digit runs and separators the purchase-date texts are built from
DateRuns == { <<"5">>, <<"0","5">>, <<"1","4">>, <<"2","0","2","3">>, <<"1","8","5","0">> }

DateSeparators == { <<"/">>, <<"-">> }

\* what a purchase-date cell may hold: three digit runs around two separators, bare
\* years on both sides of the accepted range, texts around a date, no date at all,
\* and the values null and undefined
DateTexts ==
  { a \o s1 \o b \o s2 \o c : a \in DateRuns, s1 \in DateSeparators, b \in DateRuns,
                              s2 \in DateSeparators, c \in DateRuns }
  \cup { <<"2","0","2","3">>, <<"1","8","5","0">>, <<"1","9","0","0">>, <<"1","9","0","1">>, <<"2","0","3","0">>, <<"2","0","3","1">>, <<"2","0","3","2">>, <<"0","0","0","0">>,
         <<>>, <<" ">>, <<"n","/","a">>, <<"1","2","/","2","0","2","3">>, <<" ","2","0","2","3","-","0","5","-","1","4"," ">>, <<" ","0","5","/","1","4","/","2","0","2","3">>,
         <<"S","N"," ","2","0","2","3","1","-","A">>, <<"1","2","-","0","5","-","2","0","2","3","-","0","1","-","0","2">>, <<"2","0","2","3","-","0","5","-","1","4"," ","0","5","/","1","4","/","2","0","2","3">>,
         <<"C","o","m","p","r","a","d","o"," ","2","0","2","3","/","5","/","1">>, <<"1","0","5","/","1","4","/","2","0","2","3","5">>, null, undefined }

\* the words item names are made of
NameWords ==
  { <<"T","a","l","a","d","r","o">>, <<"M","a","r","t","i","l","l","o">>, <<"C","a","s","c","o">>, <<"P","a","l","a">>, <<"N","I","V","E","L">>, <<"M","o","t","o","r">>, <<"c","a","b","l","e">>,
    <<"P","o","w","e","r">>, <<"D","r","i","l","l">>, <<"W","i","d","g","e","t">>, <<"X","Y","Z">>, <<>> }

\* the item names given to the classifier: one or two words, the names of the
\* documented examples, and the values null and undefined
ItemNames ==
  { a \o <<" ">> \o b : a \in NameWords, b \in NameWords }
  \cup { <<"T","a","l","a","d","r","o"," ","P","e","r","c","u","t","o","r">>, <<"C","a","s","c","o"," ","d","e"," ","S","e","g","u","r","i","d","a","d">>, <<"W","i","d","g","e","t"," ","X","Y","Z">>, <<>>, null, undefined }

\* header texts of the tables given to the description composer
DescHeaderTexts == { <<>>, <<"M","a","r","c","a">>, <<"N","."," ","S","e","r","i","e">> }

\* the mappings given to the description composer: any assignment of brand, model
\* and quantity, with the other three secondary fields unmapped, all on the first or
\* all on the last column
DescMappings ==
  {[f \in DOMAIN m \cup DOMAIN u |-> IF f \in DOMAIN m THEN m[f] ELSE u[f]] :
     m \in PartialMappings({"brand", "model", "quantity"}, DescCols),
     u \in {<<>>} \cup {[f \in {"serialNumber", "specifications", "supplier"} |-> c] :
                          c \in {0, DescCols - 1}}}

UploadName == <<"o","b","r","a","_","n","o","r","t","e","-","2",".","p","d","f">>

----------------------------------------------------------------------------
(* The request handler app.post('/extract-inventory'), one instance per request *)

Requests == 1..NumRequests

Pending == [state |-> "pending", value |-> <<>>]

IdleRequest ==
  [pc |-> "idle", file |-> undefined,
   promise |-> [state |-> "none", value |-> <<>>], responses |-> <<>>]

Init ==
  /\ fn = ""
  /\ args = <<>>
  /\ ret = <<>>
  /\ returned = FALSE
  /\ now = ThisYear
  /\ req = [i \in Requests |-> IdleRequest]
  /\ svcCalls = [i \in Requests |-> <<>>]

\* res.json / res.status(...).json on the request's response
Respond(r, response) ==
  [r EXCEPT !.pc = "done", !.responses = Append(@, response)]

\* The handler up to its first await: no file, an Excel name, or the submission of
\* the document to the analysis service.
ReceiveUpload(i) ==
  /\ req[i].pc = "idle"
  /\ \E file \in Uploads :
       IF file = undefined
         THEN /\ req' = [req EXCEPT ![i] = Respond([@ EXCEPT !.file = file], noFileResponse)]
              /\ UNCHANGED svcCalls
       ELSE IF isExcelName(file)
         THEN /\ req' = [req EXCEPT ![i] = Respond([@ EXCEPT !.file = file], excelResponse)]
              /\ UNCHANGED svcCalls
       ELSE /\ svcCalls' = [svcCalls EXCEPT ![i] = Append(@, "beginAnalyzeDocument")]
            /\ req' = [req EXCEPT ![i] =
                         [@ EXCEPT !.file = file, !.pc = "awaitBegin", !.promise = Pending]]
  /\ UNCHANGED <<fn, args, ret, returned, now>>

\* The service answers client.beginAnalyzeDocument: a poller, or a failure.
BeginAnalyzeSettles(i) ==
  /\ req[i].pc = "awaitBegin"
  /\ req[i].promise.state = "pending"
  /\ \/ req' = [req EXCEPT ![i].promise = [state |-> "fulfilled", value |-> "poller"]]
     \/ \E message \in ServiceMessages :
          req' = [req EXCEPT ![i].promise = [state |-> "rejected", value |-> message]]
  /\ UNCHANGED <<fn, args, ret, returned, now, svcCalls>>

\* The handler resumes after await client.beginAnalyzeDocument(...): the catch block
\* on a failure, else poller.pollUntilDone() up to the second await.
AfterBeginAnalyze(i) ==
  /\ req[i].pc = "awaitBegin"
  /\ req[i].promise.state # "pending"
  /\ IF req[i].promise.state = "rejected"
       THEN /\ req' = [req EXCEPT ![i] = Respond(@, failureResponse(req[i].promise.value))]
            /\ UNCHANGED svcCalls
       ELSE /\ svcCalls' = [svcCalls EXCEPT ![i] = Append(@, "pollUntilDone")]
            /\ req' = [req EXCEPT ![i] = [@ EXCEPT !.pc = "awaitPoll", !.promise = Pending]]
  /\ UNCHANGED <<fn, args, ret, returned, now>>

\* The service completes the analysis: a result, or a failure.
PollSettles(i) ==
  /\ req[i].pc = "awaitPoll"
  /\ req[i].promise.state = "pending"
  /\ \/ \E k \in DOMAIN AnalysisResults :
          req' = [req EXCEPT ![i].promise =
                    [state |-> "fulfilled", value |-> AnalysisResults[k]]]
     \/ \E message \in ServiceMessages :
          req' = [req EXCEPT ![i].promise = [state |-> "rejected", value |-> message]]
  /\ UNCHANGED <<fn, args, ret, returned, now, svcCalls>>

\* the items of the success responses sent so far, request by request from j on
RECURSIVE itemsSentSoFar(_)
itemsSentSoFar(j) ==
  IF j > NumRequests THEN <<>>
  ELSE (IF req[j].responses # <<>> /\ req[j].responses[1].status = 200
          THEN req[j].responses[1].body.extractedItems
          ELSE <<>>)
       \o itemsSentSoFar(j + 1)

\* a variant of AfterPoll in which extractedItems is one array of the module, shared
\* by all requests and never emptied
AfterPollSharedItems(i) ==
  /\ req[i].pc = "awaitPoll"
  /\ req[i].promise.state # "pending"
  /\ req' = [req EXCEPT ![i] =
               Respond(@, IF req[i].promise.state = "rejected"
                            THEN failureResponse(req[i].promise.value)
                            ELSE LET own == extractInventory(req[i].file, req[i].promise.value)
                                     all == itemsSentSoFar(1) \o own.body.extractedItems
                                 IN [own EXCEPT !.body.extractedItems = all,
                                                !.body.totalItems = Len(all)])]
  /\ UNCHANGED <<fn, args, ret, returned, now, svcCalls>>

\* The handler resumes after await poller.pollUntilDone(): the catch block on a
\* failure, else the whole pipeline up to res.json.
AfterPoll(i) ==
  /\ req[i].pc = "awaitPoll"
  /\ req[i].promise.state # "pending"
  /\ req' = [req EXCEPT ![i] =
               Respond(@, IF req[i].promise.state = "rejected"
                            THEN failureResponse(req[i].promise.value)
                            ELSE extractInventory(req[i].file, req[i].promise.value))]
  /\ UNCHANGED <<fn, args, ret, returned, now, svcCalls>>

Next ==
  \E i \in Requests :
    \/ ReceiveUpload(i)
    \/ BeginAnalyzeSettles(i)
    \/ AfterBeginAnalyze(i)
    \/ PollSettles(i)
    \/ AfterPoll(i)

Spec == Init /\ [][Next]_vars

----------------------------------------------------------------------------
(* Specification of the Field Mapper applied to every header sequence *)

InitMapper ==
  /\ fn = "detectFieldMappings"
  /\ args \in HeaderSeqs(MaxCols)
  /\ ret = <<>>
  /\ returned = FALSE
  /\ now = ThisYear
  /\ req = <<>>
  /\ svcCalls = <<>>

CallDetectFieldMappings ==
  /\ fn = "detectFieldMappings"
  /\ ~returned
  /\ ret' = detectFieldMappings(args)
  /\ returned' = TRUE
  /\ UNCHANGED <<fn, args, now, req, svcCalls>>

SpecMapper == InitMapper /\ [][CallDetectFieldMappings]_vars

----------------------------------------------------------------------------
(* Specification of the Table Normalizer applied to every sparse cell collection *)

InitTable ==
  /\ fn = "processAzureTable"
  /\ args \in [cells : CellSeqs]
  /\ ret = <<>>
  /\ returned = FALSE
  /\ now = ThisYear
  /\ req = <<>>
  /\ svcCalls = <<>>

CallProcessAzureTable ==
  /\ fn = "processAzureTable"
  /\ ~returned
  /\ ret' = processAzureTable(args)
  /\ returned' = TRUE
  /\ UNCHANGED <<fn, args, now, req, svcCalls>>

SpecTable == InitTable /\ [][CallProcessAzureTable]_vars

----------------------------------------------------------------------------
(* Specification of the confidence scorer applied to every row and mapping *)

InitConfidence ==
  /\ fn = "calculateItemConfidence"
  /\ args \in [row : [1..ConfCols -> ConfCells], mappings : ConfMappings]
  /\ ret = 0
  /\ returned = FALSE
  /\ now = ThisYear
  /\ req = <<>>
  /\ svcCalls = <<>>

CallCalculateItemConfidence ==
  /\ fn = "calculateItemConfidence"
  /\ ~returned
  /\ ret' = calculateItemConfidence(args.row, args.mappings)
  /\ returned' = TRUE
  /\ UNCHANGED <<fn, args, now, req, svcCalls>>

SpecConfidence == InitConfidence /\ [][CallCalculateItemConfidence]_vars

----------------------------------------------------------------------------
(* Specification of the orchestrator applied to every analysed document *)

InitExtract ==
  /\ fn = "extractInventory"
  /\ \E grid \in ExtractGrids :
       args = [originalname |-> UploadName,
               result |-> [tables |-> <<[cells |-> gridCells(grid)]>>]]
  /\ ret = <<>>
  /\ returned = FALSE
  /\ now = ThisYear
  /\ req = <<>>
  /\ svcCalls = <<>>

CallExtractInventory ==
  /\ fn = "extractInventory"
  /\ ~returned
  /\ ret' = extractInventory(args.originalname, args.result)
  /\ returned' = TRUE
  /\ UNCHANGED <<fn, args, now, req, svcCalls>>

SpecExtract == InitExtract /\ [][CallExtractInventory]_vars

----------------------------------------------------------------------------
(* Specification of the Date Normalizer applied to every purchase-date text *)

InitDate ==
  /\ fn = "formatPurchaseDate"
  /\ args \in DateTexts
  /\ ret = <<>>
  /\ returned = FALSE
  /\ now \in CurrentYears
  /\ req = <<>>
  /\ svcCalls = <<>>

CallFormatPurchaseDate ==
  /\ fn = "formatPurchaseDate"
  /\ ~returned
  /\ ret' = formatPurchaseDate(args)
  /\ returned' = TRUE
  /\ UNCHANGED <<fn, args, now, req, svcCalls>>

SpecDate == InitDate /\ [][CallFormatPurchaseDate]_vars

----------------------------------------------------------------------------
(* Specification of the Category Classifier applied to every item name *)

InitCategory ==
  /\ fn = "categorizeItem"
  /\ args \in ItemNames
  /\ ret = <<>>
  /\ returned = FALSE
  /\ now = ThisYear
  /\ req = <<>>
  /\ svcCalls = <<>>

CallCategorizeItem ==
  /\ fn = "categorizeItem"
  /\ ~returned
  /\ ret' = categorizeItem(args)
  /\ returned' = TRUE
  /\ UNCHANGED <<fn, args, now, req, svcCalls>>

SpecCategory == InitCategory /\ [][CallCategorizeItem]_vars

----------------------------------------------------------------------------
(* Specification of the Description Composer applied to every row, mapping and
   header sequence *)

InitDescription ==
  /\ fn = "buildDescription"
  /\ args \in [row : [1..DescCols -> ConfCells], mappings : DescMappings,
               headers : [1..DescCols -> DescHeaderTexts]]
  /\ ret = <<>>
  /\ returned = FALSE
  /\ now = ThisYear
  /\ req = <<>>
  /\ svcCalls = <<>>

CallBuildDescription ==
  /\ fn = "buildDescription"
  /\ ~returned
  /\ ret' = buildDescription(args.row, args.mappings, args.headers)
  /\ returned' = TRUE
  /\ UNCHANGED <<fn, args, now, req, svcCalls>>

SpecDescription == InitDescription /\ [][CallBuildDescription]_vars

----------------------------------------------------------------------------
(* Properties of the Field Mapper, under SpecMapper *)

MapperReturned == fn = "detectFieldMappings" /\ returned

\* the 0-based columns of the header sequence whose normalized header matches the field
MatchingColumns(headers, field) ==
  {i \in 0..(Len(headers) - 1) : headerMatches(field, normalizeHeader(headers[i + 1]))}

MinOf(S) == CHOOSE x \in S : \A y \in S : x <= y

\* C1: every field is assigned to the lowest column index whose normalized header
\* matches one of its patterns in either direction, also when that column is index 0,
\* and a field with no matching column is absent from the mapping.
C1_FirstMatchWins ==
  MapperReturned =>
    \A f \in Fields :
      IF MatchingColumns(args, f) = {}
        THEN f \notin DOMAIN ret
        ELSE f \in DOMAIN ret /\ ret[f] = MinOf(MatchingColumns(args, f))

\* C2 as stated: no column index is assigned to two different target fields.
C2_ColumnClaimedOnce ==
  MapperReturned =>
    \A f, g \in DOMAIN ret : f # g => ret[f] # ret[g]

\* C2 as amended: the mapping gives each mapped field one column of the header
\* sequence, a column whose normalized header matches the field, so two fields share
\* a column only when its header matches both.
C2_OneMatchingColumnPerField ==
  MapperReturned =>
    /\ DOMAIN ret \subseteq Fields
    /\ \A f \in DOMAIN ret : ret[f] \in MatchingColumns(args, f)
    /\ \A f, g \in DOMAIN ret :
         ret[f] = ret[g] =>
           ret[f] \in MatchingColumns(args, f) \cap MatchingColumns(args, g)

\* a mapping in which two fields were given the same column
C2_Witness ==
  /\ MapperReturned
  /\ \E f, g \in DOMAIN ret : f # g /\ ret[f] = ret[g]

----------------------------------------------------------------------------
(* Properties of the orchestrator's items, under SpecExtract *)

ExtractReturned == fn = "extractInventory" /\ returned

\* text of exactly the form YYYY-MM-DD
IsIsoDate(s) ==
  /\ Len(s) = 10
  /\ \A i \in {1, 2, 3, 4, 6, 7, 9, 10} : IsDigit(s[i])
  /\ s[5] = "-"
  /\ s[8] = "-"

\* C3: the purchaseDate of every produced item is null or text of exactly the form
\* YYYY-MM-DD, whatever the mapped purchase-date cell holds.
C3_PurchaseDateIsIso ==
  ExtractReturned =>
    \A k \in DOMAIN ret.body.extractedItems :
      \/ ret.body.extractedItems[k].purchaseDate = null
      \/ IsIsoDate(ret.body.extractedItems[k].purchaseDate)

----------------------------------------------------------------------------
(* Properties of the Table Normalizer, under SpecTable *)

TableReturned == fn = "processAzureTable" /\ returned

\* the content the collection holds at a coordinate: that of the last cell with the
\* coordinate, and the empty string when there is none or its content is undefined
ContentAt(cells, r, c) ==
  LET at == {k \in DOMAIN cells : cells[k].rowIndex = r /\ cells[k].columnIndex = c}
  IN IF at = {} \/ cells[MaxOf(at)].content = undefined
       THEN <<>>
       ELSE cells[MaxOf(at)].content

\* C4: for a non-empty cell collection, headers has maxCol+1 entries, there are
\* exactly maxRow rows, every row is as long as headers, headers[c] and rows[r-1][c]
\* are the contents at (0, c) and (r, c), and a missing or empty coordinate is the
\* empty string.
C4_DenseRectangularTable ==
  (TableReturned /\ args.cells # <<>>) =>
    LET maxRow == MaxOf({args.cells[k].rowIndex : k \in DOMAIN args.cells})
        maxCol == MaxOf({args.cells[k].columnIndex : k \in DOMAIN args.cells})
    IN /\ Len(ret.headers) = maxCol + 1
       /\ Len(ret.rows) = maxRow
       /\ \A c \in 0..maxCol : ret.headers[c + 1] = ContentAt(args.cells, 0, c)
       /\ \A r \in 1..maxRow :
            /\ Len(ret.rows[r]) = Len(ret.headers)
            /\ \A c \in 0..maxCol : ret.rows[r][c + 1] = ContentAt(args.cells, r, c)

\* a jagged collection: a data row exists and some coordinate of the grid has no cell
C4_Witness ==
  /\ TableReturned
  /\ Len(ret.rows) >= 1
  /\ Len(ret.headers) >= 2
  /\ \E r \in 0..Len(ret.rows), c \in 0..(Len(ret.headers) - 1) :
       \A k \in DOMAIN args.cells :
         args.cells[k].rowIndex # r \/ args.cells[k].columnIndex # c

----------------------------------------------------------------------------
(* Properties of the confidence scorer, under SpecConfidence *)

ConfidenceReturned == fn = "calculateItemConfidence" /\ returned

\* the field is mapped and its cell of the row is non-empty after trimming
HasValue(row, mappings, field) ==
  /\ field \in DOMAIN mappings
  /\ mappings[field] + 1 \in DOMAIN row
  /\ trim(row[mappings[field] + 1]) # <<>>

\* C5: the score is an integer in 0..100, the sum of the weights itemName 50,
\* brand 15, model 15, purchaseDate 10, specifications 10 over the fields that are
\* mapped to a non-empty trimmed cell; the other fields do not enter the score.
C5_ConfidenceIsWeightedSum ==
  ConfidenceReturned =>
    /\ ret \in 0..100
    /\ ret = (IF HasValue(args.row, args.mappings, "itemName") THEN 50 ELSE 0)
           + (IF HasValue(args.row, args.mappings, "brand") THEN 15 ELSE 0)
           + (IF HasValue(args.row, args.mappings, "model") THEN 15 ELSE 0)
           + (IF HasValue(args.row, args.mappings, "purchaseDate") THEN 10 ELSE 0)
           + (IF HasValue(args.row, args.mappings, "specifications") THEN 10 ELSE 0)

\* a score below 100 for a row in which an unscored field has a value and shares its
\* column with a scored field
C5_Witness ==
  /\ ConfidenceReturned
  /\ ret > 0
  /\ ret < 100
  /\ \E f \in UnscoredFields, g \in Range(confidenceFields) :
       /\ HasValue(args.row, args.mappings, f)
       /\ g \in DOMAIN args.mappings
       /\ args.mappings[g] = args.mappings[f]

----------------------------------------------------------------------------
(* Properties of the orchestrator's aggregate and of the reference document,
   under SpecExtract *)

\* the normalized table of the document the orchestrator was given
ExtractTable == processAzureTable(args.result.tables[1])

\* the 0-based indices of the data rows whose every cell is empty after trimming
BlankRows(tableData) ==
  {i \in 0..(Len(tableData.rows) - 1) :
     \A c \in DOMAIN tableData.rows[i + 1] : trim(tableData.rows[i + 1][c]) = <<>>}

RECURSIVE SumConfidence(_)
SumConfidence(items) ==
  IF items = <<>> THEN 0 ELSE Head(items).confidence + SumConfidence(Tail(items))

\* n is the mean sum / count rounded to the nearest integer, halves upwards
IsRoundedMean(n, sum, count) ==
  /\ 2 * count * n <= 2 * sum + count
  /\ 2 * sum + count < 2 * count * (n + 1)

\* C6: a row whose every cell is empty after trimming produces no item, and the
\* reported confidenceScore is the integer-rounded mean of the confidence of the
\* produced items only, 0 when no item was produced.
C6_AverageOverProducedItems ==
  ExtractReturned =>
    LET items == ret.body.extractedItems
        score == ret.body.processingInfo.confidenceScore
    IN /\ Len(items) = Len(ExtractTable.rows) - Cardinality(BlankRows(ExtractTable))
       /\ \A i \in BlankRows(ExtractTable) :
            \A k \in DOMAIN items : items[k].id # AzurePrefix \o numberToString(i)
       /\ ret.body.totalItems = Len(items)
       /\ IF Len(items) = 0
            THEN score = 0
            ELSE IsRoundedMean(score, SumConfidence(items), Len(items))

\* a document with a blank row beside a row that produced an item with a score
C6_Witness ==
  /\ ExtractReturned
  /\ BlankRows(ExtractTable) # {}
  /\ Len(ret.body.extractedItems) >= 1
  /\ ret.body.processingInfo.confidenceScore > 0

\* the document of the end-to-end scenario
ScenarioCells ==
  gridCells(<< << <<"N","o","m","b","r","e">>, <<"M","a","r","c","a">>, <<"F","e","c","h","a"," ","C","o","m","p","r","a">> >>,
               << <<"T","a","l","a","d","r","o"," ","B","o","s","c","h">>, <<"B","o","s","c","h">>, <<"0","5","/","1","4","/","2","0","2","3">> >> >>)

\* C10: for headers Nombre, Marca, Fecha Compra and the row Taladro Bosch, Bosch,
\* 05/14/2023 the mapping is itemName->0, brand->1, purchaseDate->2 and the one item
\* has category Power Tools, purchaseDate 2023-05-14, confidence 75 and description
\* "Marca: Bosch".
C10_EndToEndScenario ==
  (ExtractReturned /\ args.result.tables[1].cells = ScenarioCells) =>
    /\ detectFieldMappings(ExtractTable.headers)
         = [itemName |-> 0, brand |-> 1, purchaseDate |-> 2]
    /\ Len(ret.body.extractedItems) = 1
    /\ ret.body.extractedItems[1].category = <<"P","o","w","e","r"," ","T","o","o","l","s">>
    /\ ret.body.extractedItems[1].purchaseDate = <<"2","0","2","3","-","0","5","-","1","4">>
    /\ ret.body.extractedItems[1].confidence = 75
    /\ ret.body.extractedItems[1].description = <<"M","a","r","c","a",":"," ","B","o","s","c","h">>

\* the scenario's document has been processed
C10_Witness ==
  /\ ExtractReturned
  /\ args.result.tables[1].cells = ScenarioCells
  /\ ret.body.totalItems = 1

----------------------------------------------------------------------------
(* Properties of the request handler, under Spec *)

\* the analysis succeeded and the handler has answered
AnalysedAndDone(i) ==
  /\ req[i].pc = "done"
  /\ svcCalls[i] = <<"beginAnalyzeDocument", "pollUntilDone">>
  /\ req[i].promise.state = "fulfilled"

\* the result has no table, or its first table has no cell at all (no headers) or no
\* cell below the header row (no data rows)
NothingToExtract(result) ==
  \/ "tables" \notin DOMAIN result
  \/ result.tables = <<>>
  \/ \A k \in DOMAIN result.tables[1].cells : result.tables[1].cells[k].rowIndex = 0

\* C7: when the analysis succeeds with zero tables, or with a first table without
\* headers or without data rows, the request ends with one success response with
\* totalItems 0, confidenceScore 0 and fieldMappingSuccess false, never an error.
C7_NothingToExtractIsSuccess ==
  \A i \in Requests :
    (AnalysedAndDone(i) /\ NothingToExtract(req[i].promise.value)) =>
      /\ Len(req[i].responses) = 1
      /\ req[i].responses[1].status = 200
      /\ "error" \notin DOMAIN req[i].responses[1].body
      /\ req[i].responses[1].body.success
      /\ req[i].responses[1].body.extractedItems = <<>>
      /\ req[i].responses[1].body.totalItems = 0
      /\ req[i].responses[1].body.processingInfo.confidenceScore = 0
      /\ req[i].responses[1].body.processingInfo.fieldMappingSuccess = FALSE

\* a request answered for a document whose first table has a header row only
C7_Witness ==
  \E i \in Requests :
    /\ AnalysedAndDone(i)
    /\ "tables" \in DOMAIN req[i].promise.value
    /\ req[i].promise.value.tables # <<>>
    /\ req[i].promise.value.tables[1].cells # <<>>
    /\ NothingToExtract(req[i].promise.value)
    /\ req[i].responses[1].body.processingInfo.tablesDetected = 1

\* the upload's name ends in .xlsx or .xls, letter case ignored
HasExcelName(file) ==
  /\ file # undefined
  /\ \/ Len(file) >= 5 /\ toLowerCase(SubSeq(file, Len(file) - 4, Len(file))) = <<".","x","l","s","x">>
     \/ Len(file) >= 4 /\ toLowerCase(SubSeq(file, Len(file) - 3, Len(file))) = <<".","x","l","s">>

\* C8: a request whose upload has an Excel name is answered with the
\* unsupported-format payload (error, details, convert-to-PDF solution) and the
\* document-analysis service is never called for it.
C8_ExcelRejectedBeforeService ==
  \A i \in Requests :
    (req[i].pc # "idle" /\ HasExcelName(req[i].file)) =>
      /\ svcCalls[i] = <<>>
      /\ req[i].pc = "done"
      /\ Len(req[i].responses) = 1
      /\ req[i].responses[1].status = 400
      /\ DOMAIN req[i].responses[1].body = {"error", "details", "solution"}
      /\ req[i].responses[1].body.error = "Excel format requires conversion"
      /\ req[i].responses[1].body.details = "Please convert Excel to PDF for best results"

\* a request with an upper-case .XLS name has been rejected
C8_Witness ==
  \E i \in Requests :
    /\ req[i].pc = "done"
    /\ req[i].file = <<"I","N","V","E","N","T","A","R","I","O",".","X","L","S">>
    /\ req[i].responses # <<>>

\* C9: once the analysis call (submission or wait for completion) has failed, the
\* request sends nothing until the handler resumes, which it can, and then ends with
\* exactly one response, a failure whose details are the service's message; no
\* success result or items are returned.
C9_ServiceFailureIsReported ==
  \A i \in Requests :
    req[i].promise.state = "rejected" =>
      IF req[i].pc = "done"
        THEN /\ Len(req[i].responses) = 1
             /\ req[i].responses[1].status = 500
             /\ req[i].responses[1].body.error = "Processing failed"
             /\ req[i].responses[1].body.details = req[i].promise.value
             /\ "success" \notin DOMAIN req[i].responses[1].body
             /\ "extractedItems" \notin DOMAIN req[i].responses[1].body
        ELSE /\ req[i].responses = <<>>
             /\ ENABLED (AfterBeginAnalyze(i) \/ AfterPoll(i))

\* a request whose wait for completion failed has been answered
C9_Witness ==
  \E i \in Requests :
    /\ req[i].pc = "done"
    /\ req[i].promise.state = "rejected"
    /\ svcCalls[i] = <<"beginAnalyzeDocument", "pollUntilDone">>
    /\ req[i].responses # <<>>

----------------------------------------------------------------------------
(* Properties of the Date Normalizer, under SpecDate *)

DateReturned == fn = "formatPurchaseDate" /\ returned

\* the characters of s from position `from` on are n digits
IsRun(s, from, n) ==
  /\ from >= 1
  /\ from + n - 1 <= Len(s)
  /\ \A i \in from..(from + n - 1) : s[i] \in Range(Digits)

\* somewhere in s: a run of one of the lengths in `first`, the separator, one or two
\* digits, the separator, a run of one of the lengths in `last`
HasDateForm(s, first, sep, last) ==
  \E start \in 1..Len(s), l1 \in first, l2 \in {1, 2}, l3 \in last :
    /\ IsRun(s, start, l1)
    /\ IsRun(s, start + l1 + 1, l2)
    /\ IsRun(s, start + l1 + l2 + 2, l3)
    /\ s[start + l1] = sep
    /\ s[start + l1 + l2 + 1] = sep

HasUsDate(s) == HasDateForm(s, {1, 2}, "/", {4}) \/ HasDateForm(s, {1, 2}, "-", {4})

HasIsoLikeDate(s) == HasDateForm(s, {4}, "-", {1, 2}) \/ HasDateForm(s, {4}, "/", {1, 2})

HasYear(s) == \E start \in 1..Len(s) : IsRun(s, start, 4)

\* the number written by the leftmost run of four digits of s
FirstYear(s) ==
  LET start == CHOOSE i \in 1..Len(s) :
                 IsRun(s, i, 4) /\ \A j \in 1..(i - 1) : ~IsRun(s, j, 4)
  IN 1000 * digitValue(s[start]) + 100 * digitValue(s[start + 1])
     + 10 * digitValue(s[start + 2]) + digitValue(s[start + 3])

ZeroPadded(run) == IF Len(run) = 1 THEN <<"0">> \o run ELSE run

\* s is, as a whole, month sep day sep year; the date it stands for as YYYY-MM-DD
IsWholeUsDate(s, l1, l2) ==
  /\ Len(s) = l1 + l2 + 6
  /\ IsRun(s, 1, l1)
  /\ IsRun(s, l1 + 2, l2)
  /\ IsRun(s, l1 + l2 + 3, 4)
  /\ s[l1 + 1] \in {"/", "-"}
  /\ s[l1 + l2 + 2] = s[l1 + 1]

WholeUsDateAsIso(s, l1, l2) ==
  SubSeq(s, l1 + l2 + 3, l1 + l2 + 6) \o <<"-">> \o ZeroPadded(SubSeq(s, 1, l1))
    \o <<"-">> \o ZeroPadded(SubSeq(s, l1 + 2, l1 + l2 + 1))

----------------------------------------------------------------------------
(* Properties of the Category Classifier, under SpecCategory *)

CategoryReturned == fn = "categorizeItem" /\ returned

\* the categories in the order the claim declares them
DeclaredCategories ==
  << <<"P","o","w","e","r"," ","T","o","o","l","s">>, <<"S","a","f","e","t","y"," ","E","q","u","i","p","m","e","n","t">>, <<"H","a","n","d"," ","T","o","o","l","s">>, <<"M","e","a","s","u","r","i","n","g"," ","T","o","o","l","s">>,
     <<"P","o","w","e","r"," ","E","q","u","i","p","m","e","n","t">>, <<"C","o","n","s","t","r","u","c","t","i","o","n"," ","M","a","t","e","r","i","a","l","s">> >>

\* the declared categories one of whose keywords is a substring of the lowercased name
CategoriesMatching(name) ==
  {k \in DOMAIN DeclaredCategories :
     \E c \in DOMAIN categories :
       /\ categories[c].category = DeclaredCategories[k]
       /\ \E j \in DOMAIN categories[c].keywords :
            includes(toLowerCase(name), categories[c].keywords[j])}

\* C12: the result is the first category, in the order Power Tools, Safety
\* Equipment, Hand Tools, Measuring Tools, Power Equipment, Construction Materials,
\* that has a keyword in the lowercased name, and General Equipment when none has or
\* the name is empty or absent.
C12_FirstCategoryInDeclaredOrder ==
  CategoryReturned =>
    LET name == IF args \in {null, undefined} THEN <<>> ELSE args
    IN /\ IF CategoriesMatching(name) = {}
            THEN ret = <<"G","e","n","e","r","a","l"," ","E","q","u","i","p","m","e","n","t">>
            ELSE ret = DeclaredCategories[MinOf(CategoriesMatching(name))]
       /\ args \in {<<>>, null, undefined} => ret = <<"G","e","n","e","r","a","l"," ","E","q","u","i","p","m","e","n","t">>
       /\ args = <<"T","a","l","a","d","r","o"," ","P","e","r","c","u","t","o","r">> => ret = <<"P","o","w","e","r"," ","T","o","o","l","s">>
       /\ args = <<"C","a","s","c","o"," ","d","e"," ","S","e","g","u","r","i","d","a","d">> => ret = <<"S","a","f","e","t","y"," ","E","q","u","i","p","m","e","n","t">>
       /\ args = <<"W","i","d","g","e","t"," ","X","Y","Z">> => ret = <<"G","e","n","e","r","a","l"," ","E","q","u","i","p","m","e","n","t">>

\* a name with keywords of two categories, the later category's keyword first
C12_Witness ==
  /\ CategoryReturned
  /\ args = <<"c","a","b","l","e"," ","M","o","t","o","r">>
  /\ ret = <<"P","o","w","e","r"," ","E","q","u","i","p","m","e","n","t">>

----------------------------------------------------------------------------
(* The Table Normalizer on an empty cell collection, under SpecTable *)

\* C13 as stated: for an empty cell collection processAzureTable fails and returns
\* no table.
C13_EmptyCollectionFails ==
  (TableReturned /\ args.cells = <<>>) =>
    ("headers" \notin DOMAIN ret /\ "rows" \notin DOMAIN ret)

\* C13 as amended: for an empty cell collection processAzureTable returns, without
\* an error, the table with no headers and no rows, which is what its caller sees.
C13_EmptyCollectionGivesEmptyTable ==
  (TableReturned /\ args.cells = <<>>) =>
    /\ DOMAIN ret = {"headers", "rows"}
    /\ Len(ret.headers) = 0
    /\ Len(ret.rows) = 0

\* the normalizer has returned for the empty collection
C13_Witness ==
  /\ TableReturned
  /\ args.cells = <<>>
  /\ ret.rows = <<>>

----------------------------------------------------------------------------
(* Independence of the requests in flight, under Spec *)

\* C14: however the requests interleave at their awaits, the response of a request
\* whose analysis succeeded is the one the handler gives that upload and that
\* analysis result when the request runs alone; every item carries the request's own
\* project name, and two requests with the same upload and result get the same
\* response.
C14_RequestsAreIndependent ==
  \A i \in Requests :
    AnalysedAndDone(i) =>
      /\ req[i].responses = <<extractInventory(req[i].file, req[i].promise.value)>>
      /\ \A k \in DOMAIN req[i].responses[1].body.extractedItems :
           req[i].responses[1].body.extractedItems[k].project
             = req[i].responses[1].body.projectName
      /\ \A j \in Requests :
           (AnalysedAndDone(j) /\ req[j].file = req[i].file
              /\ req[j].promise = req[i].promise) =>
             req[j].responses = req[i].responses

\* two requests answered with different, non-empty lists of items
C14_Witness ==
  \E i, j \in Requests :
    /\ AnalysedAndDone(i)
    /\ AnalysedAndDone(j)
    /\ Len(req[i].responses[1].body.extractedItems) = 1
    /\ Len(req[j].responses[1].body.extractedItems) = 2
    /\ req[i].file # req[j].file

----------------------------------------------------------------------------
(* Properties of the Description Composer, under SpecDescription *)

DescriptionReturned == fn = "buildDescription" /\ returned

\* the secondary fields in the order the claim visits them
SecondaryOrder ==
  <<"brand", "model", "serialNumber", "specifications", "supplier", "quantity">>

\* the original header text of the column the field is mapped to
HeaderOf(headers, mappings, field) == headers[mappings[field] + 1]

\* the parts of the secondary fields from the k-th on that have a value, each
\* labelled by label[field]
RECURSIVE PartsFrom(_, _, _, _)
PartsFrom(k, row, mappings, label) ==
  IF k > Len(SecondaryOrder) THEN <<>>
  ELSE (IF HasValue(row, mappings, SecondaryOrder[k])
          THEN << label[SecondaryOrder[k]] \o <<":"," ">>
                    \o trim(row[mappings[SecondaryOrder[k]] + 1]) >>
          ELSE <<>>)
       \o PartsFrom(k + 1, row, mappings, label)

\* the parts joined with " | ", or the fallback text when there is none
Composed(parts) ==
  IF parts = <<>> THEN <<"N","o"," ","a","d","d","i","t","i","o","n","a","l"," ","d","e","t","a","i","l","s"," ","a","v","a","i","l","a","b","l","e">> ELSE join(parts, <<" ","|"," ">>)

\* C15 as stated: every part is labelled with the original header text of the mapped
\* column.
C15_LabelledByHeaderText ==
  DescriptionReturned =>
    ret = Composed(PartsFrom(1, args.row, args.mappings,
                             [f \in DOMAIN args.mappings |->
                                HeaderOf(args.headers, args.mappings, f)]))

\* C15 as amended: the fields are visited in the order brand, model, serialNumber,
\* specifications, supplier, quantity; each mapped field with a non-empty trimmed
\* value gives the part "<label>: <value>", the label being the original header text
\* of the mapped column, or the field's own name when that header text is empty; the
\* parts are joined with " | ", and the fallback text is returned exactly when no
\* field gave a part.
C15_LabelledByHeaderOrFieldName ==
  DescriptionReturned =>
    /\ ret = Composed(PartsFrom(1, args.row, args.mappings,
                                [f \in DOMAIN args.mappings |->
                                   IF HeaderOf(args.headers, args.mappings, f) # <<>>
                                     THEN HeaderOf(args.headers, args.mappings, f)
                                     ELSE fieldText[f]]))
    /\ ret = <<"N","o"," ","a","d","d","i","t","i","o","n","a","l"," ","d","e","t","a","i","l","s"," ","a","v","a","i","l","a","b","l","e">>
         <=> \A k \in DOMAIN SecondaryOrder :
               ~HasValue(args.row, args.mappings, SecondaryOrder[k])

\* a description of two parts, the first labelled by a header text and the second by
\* the field's name
C15_Witness ==
  /\ DescriptionReturned
  /\ args.headers = << <<"M","a","r","c","a">>, <<>> >>
  /\ ret = <<"M","a","r","c","a",":"," ","G","X","-","2","0"," ","|"," ","m","o","d","e","l",":"," ","G","X","-","2","0">>

----------------------------------------------------------------------------
(* Properties of the items of one result, under SpecExtract *)

\* the 0-based indices of the data rows that have a non-empty trimmed cell
ContentRows(tableData) ==
  {i \in 0..(Len(tableData.rows) - 1) : i \notin BlankRows(tableData)}

\* the k-th smallest of a set of row indices
RowOfItem(indices, k) ==
  CHOOSE i \in indices : Cardinality({j \in indices : j < i}) = k - 1

\* the mapping the orchestrator detects for the document
ExtractMappings == detectFieldMappings(ExtractTable.headers)

\* C16: the items are the non-blank data rows in row order; the item of the row at
\* 0-based index i, blank rows counted, has id "azure_i" and as itemName the trimmed
\* mapped item-name cell, or "Item (i+1)" when the field is unmapped or the cell
\* empty; the ids of one result are pairwise distinct.
C16_IdAndNameFollowRowIndex ==
  ExtractReturned =>
    LET items == ret.body.extractedItems
        table == ExtractTable
        content == ContentRows(table)
        mappings == detectFieldMappings(table.headers)
    IN /\ Len(items) = Cardinality(content)
       /\ \A k \in DOMAIN items :
            LET i == RowOfItem(content, k)
                row == table.rows[i + 1]
            IN /\ items[k].id = <<"a","z","u","r","e","_">> \o numberToString(i)
               /\ items[k].itemName
                    = IF HasValue(row, mappings, "itemName")
                        THEN trim(row[mappings["itemName"] + 1])
                        ELSE <<"I","t","e","m"," ">> \o numberToString(i + 1)
       /\ \A k, l \in DOMAIN items : k # l => items[k].id # items[l].id

\* a blank first row followed by a row without item name: the one item is azure_1
\* and is named Item 2
C16_Witness ==
  /\ ExtractReturned
  /\ BlankRows(ExtractTable) = {0}
  /\ Len(ret.body.extractedItems) = 1
  /\ ret.body.extractedItems[1].id = <<"a","z","u","r","e","_","1">>
  /\ ret.body.extractedItems[1].itemName = <<"I","t","e","m"," ","2">>

\* C17: a non-blank row whose item-name field is unmapped or empty still produces
\* its item and the request succeeds with one item per non-blank row; that item's
\* validationIssues is exactly the one issue {itemName, "Item name is required",
\* "error"}, and the item of a row with a non-empty item-name cell has none.
C17_MissingNameIsAnIssueNotAnAbort ==
  ExtractReturned =>
    LET items == ret.body.extractedItems
        table == ExtractTable
        content == ContentRows(table)
        mappings == detectFieldMappings(table.headers)
    IN /\ ret.status = 200
       /\ ret.body.success
       /\ Len(items) = Cardinality(content)
       /\ \A k \in DOMAIN items :
            items[k].validationIssues
              = IF HasValue(table.rows[RowOfItem(content, k) + 1],
                            mappings, "itemName")
                  THEN <<>>
                  ELSE << [field |-> "itemName", message |-> "Item name is required",
                           severity |-> "error"] >>

\* a row whose mapped item-name cell is empty, followed by a row that has a name:
\* two items, the first with the issue and the second without
C17_Witness ==
  /\ ExtractReturned
  /\ "itemName" \in DOMAIN ExtractMappings
  /\ Len(ret.body.extractedItems) = 2
  /\ Len(ret.body.extractedItems[1].validationIssues) = 1
  /\ ret.body.extractedItems[2].validationIssues = <<>>

====
